---- MODULE Spec2Model ----
(***************************************************************************)
(* State-machine model of app.py, the Streamlit script of the F1 telemetry *)
(* analyzer.  One script run = one pass through the script from the driver *)
(* select boxes (line 104) to the export buttons (line 252); every widget  *)
(* interaction of the user starts a new run.                               *)
(*                                                                         *)
(* Data frames are sequences of rows; every row carries its pandas index   *)
(* label (field idx), because pandas aligns Series on that label whenever  *)
(* it builds a frame from several Series.                                  *)
(*                                                                         *)
(* Units: durations are integer milliseconds, speeds integer km/h and      *)
(* distances integer multiples of 1/3600 m (km/h x ms), so that the        *)
(* division by 3.6 of the distance integration is exact.                   *)
(***************************************************************************)
EXTENDS Integers, Sequences, FiniteSets, TLC

\* ---- bounds of the model ------------------------------------------------
MaxLaps == 2        \* laps of the first driver: 1..MaxLaps
MaxSamples == 42    \* longest car-data slice of a lap

\* ---- program constants ---------------------------------------------------
AnimationStride == 20   \* range(1, len(telemetry1), 20)

NaT == -1           \* pandas NaT / NaN: an absent duration or number
NoLap == 0          \* None: what st.selectbox returns for an empty option list

Drivers == {"VER", "HAM"}

telemetry_metrics == {"Speed", "Throttle", "Brake", "RPM", "DRS", "nGear"}

\* ---- small helpers ---------------------------------------------------------
SetMin(S) == CHOOSE x \in S : \A y \in S : x <= y
SetMax(S) == CHOOSE x \in S : \A y \in S : x >= y

RECURSIVE SetSum(_)
SetSum(S) == IF S = {} THEN 0 ELSE LET x == CHOOSE x \in S : TRUE IN x.val + SetSum(S \ {x})

\* the elements of a set of integers in ascending order
RECURSIVE SortedSeq(_)
SortedSeq(S) == IF S = {} THEN << >> ELSE <<SetMin(S)>> \o SortedSeq(S \ {SetMin(S)})

Range(s) == {s[i] : i \in 1..Len(s)}

\* sequences over S without repetition, of length at most n
RECURSIVE DistinctSeqs(_, _)
DistinctSeqs(S, n) ==
  IF n = 0 THEN {<< >>}
  ELSE LET shorter == DistinctSeqs(S, n - 1)
       IN shorter \cup UNION {{Append(q, x) : x \in S \ Range(q)} :
                                q \in {p \in shorter : Len(p) = n - 1}}

\* ---- the loaded session (fastf1 Session.laps and the car data of each lap) ----
\* A lap is one row of session.laps.  LapKinds are the shapes of lap the
\* provider delivers: a timed lap, a timed lap whose second sector time was
\* not recorded, an out-lap (slow, with a pit-out timestamp) and a lap
\* without lap time.
LapKinds == {"timed", "nosector", "outlap", "notime"}

TeamOf(d) == IF d = "VER" THEN "Red Bull" ELSE "Cadillac"

LapTimeOf(d, n, kind) ==
  CASE kind = "notime" -> NaT
    [] kind = "outlap" -> 110000 + 700 * n
    [] OTHER -> 90000 + (IF d = "VER" THEN 500 * ((2 * n) % 3) ELSE 300 + 400 * (n % 2))

MkLap(d, n, kind, samples, dup, first, cols) ==
  [idx |-> NaT, Driver |-> d, Team |-> TeamOf(d), LapNumber |-> n,
   LapTime |-> LapTimeOf(d, n, kind),
   Sector1Time |-> 30000 + 100 * n,
   Sector2Time |-> IF kind = "nosector" THEN NaT ELSE 31000 + 50 * n,
   Sector3Time |-> IF kind = "notime" THEN NaT
                   ELSE LapTimeOf(d, n, kind) - 61000 - 150 * n,
   PitOutTime |-> IF kind = "outlap" THEN 5000000 + 100000 * n ELSE NaT,
   Compound |-> IF n % 2 = 1 THEN "SOFT" ELSE "MEDIUM",
   TrackStatus |-> IF kind = "outlap" THEN "12" ELSE "1",
   Samples |-> samples, DupTime |-> dup, FirstTime |-> first, Columns |-> cols]

\* session.laps has one RangeIndex over the laps of all drivers
Reindex(rows) == [i \in 1..Len(rows) |-> [rows[i] EXCEPT !.idx = i - 1]]

\* laps 1..Len(kinds) of driver d, in lap order; by default the car data of
\* lap n has n + 1 samples, the first one 60 + 20 n ms after the lap start,
\* and all metric columns
LapsOf(d, kinds) ==
  [n \in 1..Len(kinds) |->
     MkLap(d, n, kinds[n], n + 1, FALSE, 60 + 20 * n, telemetry_metrics)]

\* lap profiles of 1..n laps in which at most one lap is not a plain timed lap
Profiles(n) ==
  UNION { { [i \in 1..len |-> IF i = odd THEN kind ELSE "timed"] :
              odd \in 1..len, kind \in LapKinds } : len \in 1..n }

\* the lap profiles of the second driver
OtherProfiles ==
  { <<"timed", "notime", "timed">>, <<"notime">>, <<"outlap", "timed", "nosector">> }

\* sessions that vary the lap records
LapSessions ==
  { [laps |-> Reindex(LapsOf("VER", ka) \o LapsOf("HAM", kb))] :
      ka \in Profiles(MaxLaps), kb \in OtherProfiles }

\* sample counts of a lap's car data: around 1 and around the animation stride
SampleCounts == {1, 2, AnimationStride + 1, AnimationStride + 2, MaxSamples}

\* the car-data variants: duplicate timestamps or not, the time of the first
\* sample after the lap start (ms; a sample rarely falls on the lap start),
\* and the driver whose lap lacks the DRS channel
CarDataVariants ==
  { [dup |-> FALSE, first |-> 0, miss |-> "none"],
    [dup |-> TRUE, first |-> 120, miss |-> "none"],
    [dup |-> FALSE, first |-> 120, miss |-> "VER"],
    [dup |-> TRUE, first |-> 0, miss |-> "HAM"] }

\* sessions that vary the car data: one timed lap per driver
TelemetrySessions ==
  { [laps |-> Reindex(
        << MkLap("VER", 1, "timed", na, w.dup, w.first, telemetry_metrics \ (IF w.miss = "VER" THEN {"DRS"} ELSE {})),
           MkLap("HAM", 1, "timed", nb, w.dup, w.first, telemetry_metrics \ (IF w.miss = "HAM" THEN {"DRS"} ELSE {})) >>)] :
      na \in SampleCounts, nb \in {2, AnimationStride + 1}, w \in CarDataVariants }

Sessions == LapSessions \cup TelemetrySessions

\* ---- the sidebar and the session provider -------------------------------------
\* list(range(2024, 2018, -1))
Years == <<2024, 2023, 2022, 2021, 2020, 2019>>

SessionTypes == <<"FP1", "FP2", "FP3", "Q", "R">>

\* the longest schedule of the provider, in events; there are enough events
\* for every session of Sessions to be on offer
Rounds == (Cardinality(Sessions) + Len(SessionTypes) + Len(Years) * Len(SessionTypes) - 1)
            \div (Len(Years) * Len(SessionTypes))

\* get_event_schedule(year)['EventName'].tolist(): the events of that season,
\* in calendar order; the calendars differ, the 2019 season lacks the last
\* event of the others
gp_list(year) == [i \in 1..(IF year = 2019 THEN Rounds - 1 ELSE Rounds) |-> i]

RECURSIVE SeqOfSet(_)
SeqOfSet(S) == IF S = {} THEN << >>
               ELSE LET x == CHOOSE x \in S : TRUE IN <<x>> \o SeqOfSet(S \ {x})

\* what the provider holds: the sessions, in catalogue order
Catalogue == SeqOfSet(Sessions)

IndexIn(q, x) == CHOOSE i \in 1..Len(q) : q[i] = x

\* load_session_data: the session the provider returns for a sidebar
\* selection; the same selection always gives the same session (st.cache_data)
load_session_data(year, gp, session_type) ==
  LET types == Len(SessionTypes)
      k == ((IndexIn(Years, year) - 1) * Rounds + (gp - 1)) * types
             + (IndexIn(SessionTypes, session_type) - 1)
  IN Catalogue[(k % Len(Catalogue)) + 1]

\* no session: the load failed and the run was stopped
NoSession == [laps |-> << >>]

\* ---- fastf1 / pandas operations the script calls ------------------------------
\* Laps.pick_driver: the rows of that driver, index labels kept
pick_driver(laps, d) == SelectSeq(laps, LAMBDA r : r.Driver = d)

\* Laps.pick_quicklaps: the laps faster than 107 % of the fastest lap of the
\* frame; a lap without lap time never compares as faster
pick_quicklaps(laps) ==
  LET times == {laps[i].LapTime : i \in 1..Len(laps)} \ {NaT}
  IN IF times = {} THEN << >>
     ELSE SelectSeq(laps, LAMBDA r : r.LapTime # NaT /\ 100 * r.LapTime < 107 * SetMin(times))

\* frame['LapNumber'].tolist()
LapNumberList(laps) == [i \in 1..Len(laps) |-> laps[i].LapNumber]

\* frame.loc[session.laps['LapNumber'] == number]: the boolean mask is computed
\* on the whole session and aligned with the frame on the index labels
LocLapNumber(frame, all, number) ==
  LET mask == {all[i].idx : i \in {j \in 1..Len(all) : all[j].LapNumber = number}}
  IN SelectSeq(frame, LAMBDA r : r.idx \in mask)

\* faulty variant: the lap number is looked up in the laps of all drivers
SelectLapRowsAnyDriver(laps, driver, selected) == LocLapNumber(laps, laps, selected)

\* faulty variant: without a selected lap number, the driver's laps are used
SelectLapRowsDefaulting(laps, driver, selected) ==
  IF selected = NoLap THEN pick_driver(laps, driver)
  ELSE LocLapNumber(pick_driver(laps, driver), laps, selected)

\* session.laps.pick_driver(driver).loc[session.laps['LapNumber'] == selected]
SelectLapRows(laps, driver, selected) ==
  LocLapNumber(pick_driver(laps, driver), laps, selected)

\* the samples the provider recorded for a lap: Time is the time since the
\* lap start, the first sample is at or after the lap start, the following
\* ones are irregularly spaced or pairwise repeated; speeds from 0 to 240 km/h
SampleTime(lap, i) ==
  lap.FirstTime + (IF lap.DupTime THEN 240 * ((i - 1) \div 2)
                   ELSE 200 * (i - 1) + 40 * ((i - 1) % 3))

SampleSpeed(lap, i) ==
  60 * ((7 * i + 3 * lap.LapNumber + (IF lap.Driver = "VER" THEN 0 ELSE 2)) % 5)

SampleValue(lap, metric, i) ==
  CASE metric = "Speed" -> SampleSpeed(lap, i)
    [] metric = "DRS" -> IF SampleSpeed(lap, i) > 200 THEN 12 ELSE 0
    [] metric = "Brake" -> IF SampleSpeed(lap, i) < 100 THEN 1 ELSE 0
    [] metric = "nGear" -> 1 + SampleSpeed(lap, i) \div 40
    [] metric = "RPM" -> 4000 + 30 * SampleSpeed(lap, i)
    [] OTHER -> SampleSpeed(lap, i) \div 3

\* Lap.get_car_data(): the car data of the lap, time relative to the lap
\* start, with a fresh RangeIndex
get_car_data(lap) ==
  [columns |-> lap.Columns \cup {"Time"},
   rows |-> [i \in 1..lap.Samples |->
               [idx |-> i - 1,
                v |-> [c \in lap.Columns \cup {"Time"} |->
                         IF c = "Time" THEN SampleTime(lap, i) ELSE SampleValue(lap, c, i)]]]]

\* Telemetry.integrate_distance: ds = Speed / 3.6 * dt, with dt the time since
\* the previous sample and, for the first sample, its Time (the time since
\* the lap start), then the cumulative sum
integrate_distance(rows) ==
  LET dt(i) == IF i = 1 THEN rows[1].v["Time"] ELSE rows[i].v["Time"] - rows[i - 1].v["Time"]
      ds(i) == rows[i].v["Speed"] * dt(i)
      cum[i \in 1..Len(rows)] == IF i = 1 THEN ds(1) ELSE cum[i - 1] + ds(i)
  IN [i \in 1..Len(rows) |-> cum[i]]

\* Telemetry.add_distance: a copy of the frame with the Distance column
add_distance(tel) ==
  LET dist == integrate_distance(tel.rows)
  IN [columns |-> tel.columns \cup {"Distance"},
      rows |-> [i \in 1..Len(tel.rows) |->
                  [idx |-> tel.rows[i].idx,
                   v |-> [c \in tel.columns \cup {"Distance"} |->
                            IF c = "Distance" THEN dist[i] ELSE tel.rows[i].v[c]]]]]

\* frame[column]: the Series of one column, index labels kept
Column(tel, c) == [i \in 1..Len(tel.rows) |-> [idx |-> tel.rows[i].idx, val |-> tel.rows[i].v[c]]]
Values(series) == [i \in 1..Len(series) |-> series[i].val]

LapColumn(laps, c) == [i \in 1..Len(laps) |-> [idx |-> laps[i].idx, val |-> laps[i][c]]]

\* value of a Series at an index label, NaN where the Series has no such label
At(series, label) ==
  IF \E i \in 1..Len(series) : series[i].idx = label
  THEN series[CHOOSE i \in 1..Len(series) : series[i].idx = label].val
  ELSE NaT

Labels(series) == {series[i].idx : i \in 1..Len(series)}

\* pd.DataFrame({a: s1, b: s2, c: s3}).dropna(): the three Series are aligned
\* on the union of their index labels, a Series without a label gets NaN
\* there, and every row holding a NaN is dropped
AlignedFrame(s1, s2, s3) ==
  LET labels == SortedSeq(Labels(s1) \cup Labels(s2) \cup Labels(s3))
  IN [i \in 1..Len(labels) |->
        [idx |-> labels[i], a |-> At(s1, labels[i]), b |-> At(s2, labels[i]), c |-> At(s3, labels[i])]]

dropna(frame) == SelectSeq(frame, LAMBDA r : r.a # NaT /\ r.b # NaT /\ r.c # NaT)

\* faulty variant: an absent duration becomes 0 seconds
total_seconds_or_zero(t) == IF t = NaT THEN 0 ELSE t

\* Timedelta.total_seconds(): NaT gives NaN, no exception
\* (seconds are kept as integer thousandths)
total_seconds(t) == IF t = NaT THEN NaT ELSE t

\* ---- the script ------------------------------------------------------------------
VARIABLES
  session,        \* the session load_session_data returned last, NoSession after a failure
  input,          \* the widget values the current run has read
  pc,             \* the section the run is about to execute
  err,            \* the exception that ended the run, "none" otherwise
  lap1, lap2,                 \* the selected lap rows (none or one row each)
  telemetry1, telemetry2,     \* their car data with the Distance column
  charts,         \* the telemetry comparison figures plotted so far
  sector_data,    \* the sector table
  lap_summaries,  \* the per-driver race summary
  anim_i,         \* loop variable i of the speed animation
  frames,         \* number of animation frames drawn
  frame,          \* the figure the animation placeholder shows
  sum_df,         \* the lap summary table
  comparison_df,  \* the lap-by-lap comparison table
  csv_df,         \* the exported telemetry table
  pdf_plot        \* the curves of the exported PDF plot

vars == <<session, input, pc, err, lap1, lap2, telemetry1, telemetry2, charts,
          sector_data, lap_summaries, anim_i, frames, frame, sum_df,
          comparison_df, csv_df, pdf_plot>>

NoTelemetry == [columns |-> {}, rows |-> << >>]
NoFigure == [x |-> << >>, y |-> << >>]
NoSummaries == [d \in {} |-> 0]

DefaultInput ==
  [year |-> 2024, gp |-> 1, session_type |-> "FP1",
   driver1 |-> "VER", driver2 |-> "VER", lap1 |-> NoLap, lap2 |-> NoLap,
   metrics |-> << >>, buttons |-> {}]

\* the lists st.multiselect can return; only Speed is read outside the metric
\* loop, the other five metrics are handled alike and DRS stands for them
MetricLists == DistinctSeqs({"Speed", "DRS"}, 2)

\* session.laps['Driver'].unique()
drivers == {session.laps[i].Driver : i \in 1..Len(session.laps)}

\* driver1_laps / driver2_laps
QuickLapNumbers(laps, d) == LapNumberList(pick_quicklaps(pick_driver(laps, d)))

\* st.selectbox: one of the options, None when there is none
SelectboxValues(options) == IF options = << >> THEN {NoLap} ELSE Range(options)

\* before the first run: nothing is loaded, the widgets have their defaults
Init ==
  /\ session = NoSession
  /\ input = DefaultInput
  /\ pc = "idle"
  /\ err = "none"
  /\ lap1 = << >> /\ lap2 = << >>
  /\ telemetry1 = NoTelemetry /\ telemetry2 = NoTelemetry
  /\ charts = << >>
  /\ sector_data = << >>
  /\ lap_summaries = NoSummaries
  /\ anim_i = 0 /\ frames = 0 /\ frame = NoFigure
  /\ sum_df = << >>
  /\ comparison_df = << >>
  /\ csv_df = << >>
  /\ pdf_plot = << >>

\* a rerun clears the page
ClearPage ==
  /\ charts' = << >>
  /\ sector_data' = << >>
  /\ lap_summaries' = NoSummaries
  /\ anim_i' = 0 /\ frames' = 0 /\ frame' = NoFigure
  /\ sum_df' = << >>
  /\ comparison_df' = << >>
  /\ csv_df' = << >>
  /\ pdf_plot' = << >>

\* A widget interaction starts the script again from the top: a run that is
\* still under way is stopped where it is, the laps, car data and tables of
\* the run are gone and the page is cleared.  The sidebar widgets keep their
\* values until the new run reads them, and the session the run worked on
\* stays in the st.cache_data store.
Rerun ==
  /\ pc # "idle"
  /\ pc' = "idle"
  /\ input' = [DefaultInput EXCEPT !.year = input.year, !.gp = input.gp,
                                   !.session_type = input.session_type]
  /\ ClearPage
  /\ err' = "none"
  /\ lap1' = << >> /\ lap2' = << >>
  /\ telemetry1' = NoTelemetry /\ telemetry2' = NoTelemetry
  /\ UNCHANGED session

\* the ways lines 51-101 end: the session is loaded; the import of fastf1
\* raises ModuleNotFoundError (58); enable_cache raises NotADirectoryError,
\* which line 58 does not catch; the schedule fails to load (82); the session
\* fails to load (99)
LoadOutcomes == {"loaded", "no fastf1", "no cache", "no schedule", "no session"}

\* Lines 51-101.  The script runs from the top: the sidebar is read and the
\* session is loaded into `session`.  When fastf1
\* cannot be imported (53-60), the schedule cannot be loaded (80-84) or the
\* session cannot be loaded (96-101), st.error and st.stop end the run; any
\* other exception of load_fastf1 ends it uncaught.  A run that fails before
\* a sidebar widget is created does not read that widget.
LoadSession(year, gp, session_type, outcome) ==
  LET reads_year == outcome \notin {"no fastf1", "no cache"}
      reads_event == outcome \in {"loaded", "no session"}
  IN /\ pc = "idle"
     /\ outcome \in LoadOutcomes
     /\ year \in (IF reads_year THEN Range(Years) ELSE {DefaultInput.year})
     /\ gp \in (IF reads_event THEN Range(gp_list(year)) ELSE {DefaultInput.gp})
     /\ session_type \in (IF reads_event THEN Range(SessionTypes)
                          ELSE {DefaultInput.session_type})
     /\ input' = [DefaultInput EXCEPT !.year = year, !.gp = gp,
                                      !.session_type = session_type]
     /\ err' = IF outcome = "no cache" THEN "NotADirectoryError" ELSE "none"
     /\ session' = IF outcome = "loaded" THEN load_session_data(year, gp, session_type)
                    ELSE NoSession
     /\ pc' = CASE outcome = "loaded" -> "drivers"
                [] outcome = "no cache" -> "error"
                [] OTHER -> "stopped"
     /\ UNCHANGED <<lap1, lap2, telemetry1, telemetry2, charts, sector_data,
                     lap_summaries, anim_i, frames, frame, sum_df, comparison_df,
                     csv_df, pdf_plot>>

\* Lines 103-122: the driver and lap select boxes are read, the two laps are
\* looked up and their car data gets its Distance column.  Both lap select
\* boxes get the key lap_select_<driver>: with the same driver twice, the
\* second one raises DuplicateWidgetID.  .iloc[0] on an empty selection raises
\* IndexError.
SelectLaps(d1, d2, l1, l2) ==
  LET rows1 == SelectLapRows(session.laps, d1, l1)
      rows2 == SelectLapRows(session.laps, d2, l2)
      failure == CASE d1 = d2 -> "DuplicateWidgetID"
                   [] d1 # d2 /\ (rows1 = << >> \/ rows2 = << >>) -> "IndexError"
                   [] OTHER -> "none"
  IN /\ pc = "drivers"
     /\ d1 \in drivers /\ d2 \in drivers
     /\ l1 \in SelectboxValues(QuickLapNumbers(session.laps, d1))
     /\ l2 \in (IF d1 = d2 THEN {NoLap} ELSE SelectboxValues(QuickLapNumbers(session.laps, d2)))
     /\ input' = [input EXCEPT !.driver1 = d1, !.driver2 = d2, !.lap1 = l1, !.lap2 = l2]
     /\ err' = failure
     /\ pc' = IF failure = "none" THEN "metrics" ELSE "error"
     /\ lap1' = IF d1 # d2 /\ rows1 # << >> THEN <<rows1[1]>> ELSE << >>
     /\ lap2' = IF failure = "none" THEN <<rows2[1]>> ELSE << >>
     /\ telemetry1' = IF failure = "none" THEN add_distance(get_car_data(rows1[1])) ELSE NoTelemetry
     /\ telemetry2' = IF failure = "none" THEN add_distance(get_car_data(rows2[1])) ELSE NoTelemetry
     /\ UNCHANGED <<session, charts, sector_data, lap_summaries, anim_i, frames,
                     frame, sum_df, comparison_df, csv_df, pdf_plot>>

\* what the rest of the run leaves alone
UNCHANGED_selection == UNCHANGED <<session, lap1, lap2, telemetry1, telemetry2>>

\* one figure of the metric loop: both traces against their own distance axis
MetricFigure(metric, t1, t2) ==
  [metric |-> metric,
   x1 |-> Values(Column(t1, "Distance")), y1 |-> Values(Column(t1, metric)),
   x2 |-> Values(Column(t2, "Distance")), y2 |-> Values(Column(t2, metric))]

\* telemetry1[metric] / telemetry2[metric] raise KeyError for a missing column
MetricMissing(metric, t1, t2) == metric \notin t1.columns \/ metric \notin t2.columns

\* the metrics the loop plots before it ends or raises
PlottedMetrics(metrics, t1, t2) ==
  LET bad == {i \in 1..Len(metrics) : MetricMissing(metrics[i], t1, t2)}
  IN IF bad = {} THEN metrics ELSE SubSeq(metrics, 1, SetMin(bad) - 1)

\* Lines 124-148: the multiselect and the loop over the selected metrics.
PlotMetrics(metrics) ==
  LET plotted == PlottedMetrics(metrics, telemetry1, telemetry2)
  IN /\ pc = "metrics"
     /\ metrics \in MetricLists
     /\ input' = [input EXCEPT !.metrics = metrics]
     /\ charts' = [i \in 1..Len(plotted) |-> MetricFigure(plotted[i], telemetry1, telemetry2)]
     /\ err' = IF plotted = metrics THEN "none" ELSE "KeyError"
     /\ pc' = IF plotted = metrics THEN "sectors" ELSE "error"
     /\ UNCHANGED <<sector_data, lap_summaries, anim_i, frames, frame, sum_df,
                     comparison_df, csv_df, pdf_plot>>
     /\ UNCHANGED_selection

\* one row of the sector table
SectorRow(driver, lap) ==
  [Driver |-> driver,
   Sector1 |-> total_seconds(lap.Sector1Time),
   Sector2 |-> total_seconds(lap.Sector2Time),
   Sector3 |-> total_seconds(lap.Sector3Time)]

\* Lines 150-160: the sector table of the two selected laps.
SectorAnalysis ==
  /\ pc = "sectors"
  /\ sector_data' = << SectorRow(input.driver1, lap1[1]), SectorRow(input.driver2, lap2[1]) >>
  /\ pc' = "summaries"
  /\ UNCHANGED <<input, err, charts, lap_summaries, anim_i, frames, frame, sum_df,
                  comparison_df, csv_df, pdf_plot>>
  /\ UNCHANGED_selection

\* faulty variant: a lap without lap time counts as a lap of 0 seconds
MeanLapTimeCountingAbsent(laps) ==
  LET present == {i \in 1..Len(laps) : laps[i].LapTime # NaT}
  IN [num |-> SetSum({[i |-> i, val |-> laps[i].LapTime] : i \in present}),
      den |-> Len(laps)]

\* x.mean() of a LapTime group: NaT values are skipped, the mean of no value is
\* NaT.  The mean is kept as the exact fraction num / den.
MeanLapTime(laps) ==
  LET present == {i \in 1..Len(laps) : laps[i].LapTime # NaT}
  IN IF present = {} THEN [num |-> NaT, den |-> 1]
     ELSE [num |-> SetSum({[i |-> i, val |-> laps[i].LapTime] : i \in present}),
           den |-> Cardinality(present)]

\* x.min() of a LapTime group: NaT values are skipped
MinLapTime(laps) ==
  LET times == {laps[i].LapTime : i \in 1..Len(laps)} \ {NaT}
  IN IF times = {} THEN NaT ELSE SetMin(times)

\* x.notna().sum() of a PitOutTime group
PitStops(laps) == Cardinality({i \in 1..Len(laps) : laps[i].PitOutTime # NaT})

\* session.laps.groupby('Driver').agg(...): one row per driver of the session
LapSummaries(laps) ==
  [d \in {laps[i].Driver : i \in 1..Len(laps)} |->
     LET group == SelectSeq(laps, LAMBDA r : r.Driver = d)
     IN [Total_Laps |-> SetMax({group[i].LapNumber : i \in 1..Len(group)}),
         Average_Lap_Time |-> MeanLapTime(group),
         Best_Lap_Time |-> total_seconds(MinLapTime(group)),
         Pit_Stops |-> PitStops(group)]]

\* Lines 162-172: the per-driver race summary.
RaceSummaries ==
  /\ pc = "summaries"
  /\ lap_summaries' = LapSummaries(session.laps)
  /\ pc' = "animation"
  /\ UNCHANGED <<input, err, charts, sector_data, anim_i, frames, frame, sum_df,
                  comparison_df, csv_df, pdf_plot>>
  /\ UNCHANGED_selection

\* Lines 174-182: the animation button; a click enters the loop with i = 1.
StartAnimation(clicked) ==
  /\ pc = "animation"
  /\ clicked \in BOOLEAN
  /\ input' = [input EXCEPT !.buttons = IF clicked THEN {"animation"} ELSE {}]
  /\ anim_i' = IF clicked THEN 1 ELSE 0
  /\ pc' = IF clicked THEN "animating" ELSE "lapsummary"
  /\ UNCHANGED <<err, charts, sector_data, lap_summaries, frames, frame, sum_df,
                  comparison_df, csv_df, pdf_plot>>
  /\ UNCHANGED_selection

\* faulty variant: the stride of the range is dropped
NextFrameIndexNoStride(i) == i + 1

\* the next value of range(1, n, 20) after i
NextFrameIndex(i) == i + AnimationStride

\* telemetry1['Distance'][:i] against telemetry1['Speed'][:i]
AnimationFigure(tel, i) ==
  [x |-> SubSeq(Values(Column(tel, "Distance")), 1, IF i < Len(tel.rows) THEN i ELSE Len(tel.rows)),
   y |-> SubSeq(Values(Column(tel, "Speed")), 1, IF i < Len(tel.rows) THEN i ELSE Len(tel.rows))]

\* Lines 182-192: one pass of the loop body (draw the frame, sleep).
AnimationFrame ==
  /\ pc = "animating"
  /\ anim_i < Len(telemetry1.rows)
  /\ frame' = AnimationFigure(telemetry1, anim_i)
  /\ frames' = frames + 1
  /\ anim_i' = NextFrameIndex(anim_i)
  /\ UNCHANGED <<input, pc, err, charts, sector_data, lap_summaries, sum_df,
                  comparison_df, csv_df, pdf_plot>>
  /\ UNCHANGED_selection

\* Line 182: the range is exhausted.
AnimationEnd ==
  /\ pc = "animating"
  /\ anim_i >= Len(telemetry1.rows)
  /\ pc' = "lapsummary"
  /\ UNCHANGED <<input, err, charts, sector_data, lap_summaries, anim_i, frames, frame,
                  sum_df, comparison_df, csv_df, pdf_plot>>
  /\ UNCHANGED_selection

SummaryRow(driver, lap) ==
  [Driver |-> driver, Team |-> lap.Team, LapTime |-> total_seconds(lap.LapTime),
   Compound |-> lap.Compound, TrackStatus |-> lap.TrackStatus]

\* Lines 194-203: the lap summary of the two selected laps.
LapSummary ==
  /\ pc = "lapsummary"
  /\ sum_df' = << SummaryRow(input.driver1, lap1[1]), SummaryRow(input.driver2, lap2[1]) >>
  /\ pc' = "lapbylap"
  /\ UNCHANGED <<input, err, charts, sector_data, lap_summaries, anim_i, frames, frame,
                  comparison_df, csv_df, pdf_plot>>
  /\ UNCHANGED_selection

\* Lines 207-214: comparison_df.  Column a is 'Lap' (driver 1's lap numbers),
\* b driver 1's lap times and c driver 2's, all three Series carrying the
\* index labels of session.laps.
ComparisonFrame(laps, d1, d2) ==
  LET df1 == pick_quicklaps(pick_driver(laps, d1))
      df2 == pick_quicklaps(pick_driver(laps, d2))
  IN dropna(AlignedFrame(LapColumn(df1, "LapNumber"), LapColumn(df1, "LapTime"),
                         LapColumn(df2, "LapTime")))

\* Lines 205-225: the lap-by-lap comparison.
LapByLap ==
  /\ pc = "lapbylap"
  /\ comparison_df' = ComparisonFrame(session.laps, input.driver1, input.driver2)
  /\ pc' = "export"
  /\ UNCHANGED <<input, err, charts, sector_data, lap_summaries, anim_i, frames, frame,
                  sum_df, csv_df, pdf_plot>>
  /\ UNCHANGED_selection

\* Lines 230-234: csv_df.  Column a is Distance (of telemetry1), b driver 1's
\* speed, c driver 2's speed.
CsvFrame(t1, t2) ==
  dropna(AlignedFrame(Column(t1, "Distance"), Column(t1, "Speed"), Column(t2, "Speed")))

\* Lines 242-243: the two curves of the PDF plot
PdfCurves(t1, t2) ==
  << [x |-> Values(Column(t1, "Distance")), y |-> Values(Column(t1, "Speed"))],
     [x |-> Values(Column(t2, "Distance")), y |-> Values(Column(t2, "Speed"))] >>

\* Lines 227-252: the two export buttons, each with an if block of its own;
\* the blocks of all clicked buttons run, one after the other.
Export(csv, pdf) ==
  /\ pc = "export"
  /\ csv \in BOOLEAN /\ pdf \in BOOLEAN
  /\ input' = [input EXCEPT !.buttons = @ \cup (IF csv THEN {"csv"} ELSE {})
                                           \cup (IF pdf THEN {"pdf"} ELSE {})]
  /\ csv_df' = IF csv THEN CsvFrame(telemetry1, telemetry2) ELSE << >>
  /\ pdf_plot' = IF pdf THEN PdfCurves(telemetry1, telemetry2) ELSE << >>
  /\ pc' = "done"
  /\ UNCHANGED <<err, charts, sector_data, lap_summaries, anim_i, frames, frame, sum_df,
                  comparison_df>>
  /\ UNCHANGED_selection

Next ==
  \/ \E year \in Range(Years), gp \in 1..Rounds, session_type \in Range(SessionTypes),
        outcome \in LoadOutcomes : LoadSession(year, gp, session_type, outcome)
  \/ Rerun
  \/ \E d1 \in Drivers, d2 \in Drivers, l1 \in 0..(MaxLaps + 1), l2 \in 0..(MaxLaps + 1) :
        SelectLaps(d1, d2, l1, l2)
  \/ \E metrics \in MetricLists : PlotMetrics(metrics)
  \/ SectorAnalysis
  \/ RaceSummaries
  \/ \E clicked \in BOOLEAN : StartAnimation(clicked)
  \/ AnimationFrame
  \/ AnimationEnd
  \/ LapSummary
  \/ LapByLap
  \/ \E csv \in BOOLEAN, pdf \in BOOLEAN : Export(csv, pdf)

Spec == Init /\ [][Next]_vars

\* the script terminates its animation loop: the loop body and the loop exit
\* are taken whenever they stay enabled
LiveSpec == Spec /\ WF_vars(AnimationFrame) /\ WF_vars(AnimationEnd)

\* ---- vocabulary of the properties ---------------------------------------------
LapSet == Range(session.laps)
LapsOfDriver(d) == {r \in LapSet : r.Driver = d}

\* a quick lap: timed, and faster than 107 % of every timed lap of its driver
IsQuick(r) ==
  /\ r.LapTime # NaT
  /\ \A q \in LapsOfDriver(r.Driver) : q.LapTime # NaT => 100 * r.LapTime < 107 * q.LapTime

QuickNumbers(d) == {r.LapNumber : r \in {q \in LapsOfDriver(d) : IsQuick(q)}}

\* the run has selected two laps and aligned their car data
Selected == pc \notin {"idle", "stopped", "drivers", "error"} \/ (pc = "error" /\ err = "KeyError")

SeriesOf(tel, c) == [i \in 1..Len(tel.rows) |-> tel.rows[i].v[c]]

\* ---- C1 ------------------------------------------------------------------------
\* the inner join of the two drivers' quick laps on the lap number
PairedLaps(d1, d2) ==
  { [Lap |-> a.LapNumber, timeA |-> a.LapTime, timeB |-> b.LapTime] :
      <<a, b>> \in {w \in LapsOfDriver(d1) \X LapsOfDriver(d2) :
                      IsQuick(w[1]) /\ IsQuick(w[2]) /\ w[1].LapNumber = w[2].LapNumber} }

\* C1: the lap-by-lap comparison table has exactly one row (lap, timeA, timeB)
\* for every lap number at which both drivers have a quick lap, and no other row.
C1_PairedLapTimeSeries ==
  pc \in {"export", "done"} =>
    /\ {[Lap |-> r.a, timeA |-> r.b, timeB |-> r.c] : r \in Range(comparison_df)}
         = PairedLaps(input.driver1, input.driver2)
    /\ Len(comparison_df) = Cardinality(PairedLaps(input.driver1, input.driver2))

\* ---- C2 ------------------------------------------------------------------------
\* C2: after the metric loop, every requested metric that both laps recorded
\* has its comparison, the others are omitted, and a missing metric has not
\* aborted the run.
C2_MetricOmissionNonFatal ==
  pc \notin {"idle", "metrics"} =>
    /\ err # "KeyError"
    /\ {charts[i].metric : i \in 1..Len(charts)}
         = {m \in Range(input.metrics) : ~MetricMissing(m, telemetry1, telemetry2)}

\* ---- C3 ------------------------------------------------------------------------
\* C3: the distance sequence of both aligned laps starts at 0, never
\* decreases, and distance at sample i = distance at sample i-1 + speed at
\* sample i-1 x the time between the two samples.
C3_DistanceFromPreviousSpeed ==
  Selected =>
    \A tel \in {telemetry1, telemetry2} :
      LET D == SeriesOf(tel, "Distance")
          S == SeriesOf(tel, "Speed")
          T == SeriesOf(tel, "Time")
      IN /\ Len(D) > 0 => D[1] = 0
         /\ \A i \in 2..Len(D) :
              /\ D[i] >= D[i - 1]
              /\ D[i] = D[i - 1] + S[i - 1] * (T[i] - T[i - 1])

\* ---- C4 ------------------------------------------------------------------------
RECURSIVE TimeSum(_)
TimeSum(rs) == IF rs = {} THEN 0
               ELSE LET r == CHOOSE r \in rs : TRUE IN r.LapTime + TimeSum(rs \ {r})

TimedLaps(d) == {r \in LapsOfDriver(d) : r.LapTime # NaT}

\* C4: every driver's summary row has total laps = highest lap number, average
\* = mean of the present lap times only, best = least present lap time, pit
\* stops = number of laps with a pit-out timestamp.
C4_ParticipantSummary ==
  pc \in {"animation", "animating", "lapsummary", "lapbylap", "export", "done"} =>
    /\ DOMAIN lap_summaries = {r.Driver : r \in LapSet}
    /\ \A d \in DOMAIN lap_summaries :
         LET row == lap_summaries[d]
         IN /\ \E r \in LapsOfDriver(d) : r.LapNumber = row.Total_Laps
            /\ \A r \in LapsOfDriver(d) : r.LapNumber <= row.Total_Laps
            /\ row.Pit_Stops = Cardinality({r \in LapsOfDriver(d) : r.PitOutTime # NaT})
            /\ IF TimedLaps(d) = {}
               THEN row.Average_Lap_Time.num = NaT /\ row.Best_Lap_Time = NaT
               ELSE /\ row.Average_Lap_Time.num = TimeSum(TimedLaps(d))
                    /\ row.Average_Lap_Time.den = Cardinality(TimedLaps(d))
                    /\ \E r \in TimedLaps(d) : r.LapTime = row.Best_Lap_Time
                    /\ \A r \in TimedLaps(d) : r.LapTime >= row.Best_Lap_Time

\* the summary exists for a driver with timed laps, a lap without lap time
\* and a pit stop somewhere in the session
C4_Witness ==
  /\ pc = "done"
  /\ \E d \in DOMAIN lap_summaries :
       /\ Cardinality(TimedLaps(d)) >= 2
       /\ \E r \in LapsOfDriver(d) : r.LapTime = NaT
       /\ lap_summaries[d].Average_Lap_Time.den = 2
  /\ \E d \in DOMAIN lap_summaries : lap_summaries[d].Pit_Stops > 0

\* ---- C5 ------------------------------------------------------------------------
\* the lap the user selected for a driver
ChosenLap(d, n) == CHOOSE r \in LapsOfDriver(d) : r.LapNumber = n

SectorSlots(row, lap) ==
  /\ row.Sector1 = lap.Sector1Time
  /\ row.Sector2 = lap.Sector2Time
  /\ row.Sector3 = lap.Sector3Time

\* C5: once the sector section has run, the table holds both selected laps
\* with all three slots, each the recorded sector time or absent; an absent
\* sector is not turned into 0, drops no row and raises nothing.
C5_SectorSlots ==
  pc \in {"summaries", "animation", "animating", "lapsummary", "lapbylap", "export", "done"} =>
    /\ err = "none"
    /\ Len(sector_data) = 2
    /\ sector_data[1].Driver = input.driver1
    /\ sector_data[2].Driver = input.driver2
    /\ SectorSlots(sector_data[1], ChosenLap(input.driver1, input.lap1))
    /\ SectorSlots(sector_data[2], ChosenLap(input.driver2, input.lap2))

\* a selected lap lacks only its second sector time
C5_Witness ==
  /\ pc = "done"
  /\ \E k \in 1..2 : /\ sector_data[k].Sector2 = NaT
                       /\ sector_data[k].Sector1 > 0
                       /\ sector_data[k].Sector3 > 0

\* ---- C6 ------------------------------------------------------------------------
\* C6: every exported row holds, next to its distance, driver 2's speed at
\* that distance.
C6_ExportRowsShareDistance ==
  (pc = "done" /\ "csv" \in input.buttons) =>
    \A r \in Range(csv_df) :
      \E j \in 1..Len(telemetry2.rows) :
        /\ telemetry2.rows[j].v["Distance"] = r.a
        /\ telemetry2.rows[j].v["Speed"] = r.c

\* ---- C7 ------------------------------------------------------------------------
\* a session is loaded and the run has read the two driver select boxes
DriversChosen == session # NoSession /\ pc \notin {"idle", "stopped", "drivers"}

NothingProduced ==
  /\ telemetry1 = NoTelemetry /\ telemetry2 = NoTelemetry
  /\ charts = << >> /\ sector_data = << >> /\ lap_summaries = NoSummaries
  /\ frames = 0 /\ sum_df = << >> /\ comparison_df = << >>
  /\ csv_df = << >> /\ pdf_plot = << >>

\* C7: when a chosen driver has no lap that can be selected, the run ends in
\* an error and produces no comparison, table, summary or series.
C7_SelectionErrorSurfaced ==
  (DriversChosen
     /\ (QuickNumbers(input.driver1) = {} \/ QuickNumbers(input.driver2) = {})) =>
    /\ pc = "error"
    /\ err \in {"IndexError", "DuplicateWidgetID"}
    /\ NothingProduced

\* two different drivers were chosen, one of them without any quick lap
C7_Witness ==
  /\ pc = "error" /\ err = "IndexError"
  /\ input.driver1 # input.driver2
  /\ QuickNumbers(input.driver1) # {}
  /\ QuickNumbers(input.driver2) = {}
  /\ LapsOfDriver(input.driver2) # {}

\* ---- C9 ------------------------------------------------------------------------
Ascending(q) == \A i \in 1..(Len(q) - 1) : q[i] < q[i + 1]

\* C9: the lap numbers offered for a driver are that driver's quick laps in
\* ascending order, and the lap used is the chosen driver's lap with the
\* selected number.
C9_LapOfChosenDriver ==
  /\ \A d \in drivers :
       /\ Ascending(QuickLapNumbers(session.laps, d))
       /\ Range(QuickLapNumbers(session.laps, d)) = QuickNumbers(d)
  /\ Selected =>
       /\ Len(lap1) = 1 /\ Len(lap2) = 1
       /\ lap1[1].Driver = input.driver1 /\ lap1[1].LapNumber = input.lap1
       /\ lap2[1].Driver = input.driver2 /\ lap2[1].LapNumber = input.lap2
       /\ lap1[1] \in LapSet /\ lap2[1] \in LapSet
       /\ input.lap1 \in QuickNumbers(input.driver1)
       /\ input.lap2 \in QuickNumbers(input.driver2)

\* both drivers have a lap with each of the two selected numbers, the
\* selected numbers differ, and one driver has a lap that is not quick
C9_Witness ==
  /\ Selected
  /\ input.lap1 # input.lap2
  /\ \E r \in LapsOfDriver(input.driver1) : r.LapNumber = input.lap2
  /\ \E r \in LapsOfDriver(input.driver2) : r.LapNumber = input.lap1
  /\ \E r \in LapsOfDriver(input.driver2) : ~IsQuick(r)

\* ---- C10 -----------------------------------------------------------------------
Prefix(q, n) == [i \in 1..n |-> q[i]]

\* the frame shown is the prefix of the speed series of the length the
\* number of frames drawn so far dictates: 1, 21, 41, ...
FrameIsPrefix ==
  LET n == Len(telemetry1.rows)
      k == 1 + AnimationStride * (frames - 1)
  IN IF frames = 0 THEN frame = NoFigure
     ELSE /\ k < n
          /\ frame.x = Prefix(SeriesOf(telemetry1, "Distance"), k)
          /\ frame.y = Prefix(SeriesOf(telemetry1, "Speed"), k)

\* C10: the replay draws prefixes of driver 1's speed series of lengths 1, 21,
\* 41, ... below the series length, each longer than the one before, changes
\* nothing else, draws nothing for a series of one sample, and ends.
C10_ReplayTerminates ==
  /\ [](FrameIsPrefix /\ (Len(telemetry1.rows) <= 1 => frames = 0))
  /\ [][frames' > frames =>
          /\ Len(frame'.x) > Len(frame.x)
          /\ UNCHANGED <<session, telemetry1, telemetry2, charts, sector_data,
                          lap_summaries, sum_df, comparison_df, csv_df, pdf_plot>>]_vars
  /\ (pc = "animating") ~> (pc # "animating")
  /\ [](pc \in {"lapsummary", "lapbylap", "export", "done"} /\ "animation" \in input.buttons =>
          frames = (Len(telemetry1.rows) - 2) \div AnimationStride + 1)

\* the replay of a series of more than 41 samples has drawn its third frame
C10_Witness ==
  /\ pc = "lapsummary" /\ "animation" \in input.buttons
  /\ frames = 3 /\ Len(frame.x) = 41
  /\ Len(telemetry1.rows) > 41

====
